---- MODULE Spec2Model ----
(***************************************************************************)
(* State-machine model of e4b (src/e4b.cpp, src/e4b.h): an in-process      *)
(* embeddings index using locality sensitive hashing.                      *)
(*                                                                         *)
(* Numbers.  Embedding components, projections and offsets are small      *)
(* integers, on which the float arithmetic of the code is exact.  The     *)
(* similarity and the score are floats in the code; here they are         *)
(* fixed-point integers in units of 1/Scale, with two extra values NaN    *)
(* and Inf for the IEEE results 0/0 and 1/0.  grow_ratio is a float; here *)
(* it is an integer count of 1/RatioUnit.                                  *)
(*                                                                         *)
(* Pointers.  The code stores the caller's pointers, not copies; a        *)
(* pointer is the name of a caller buffer and mem holds the buffers.      *)
(*                                                                         *)
(* Undefined behaviour.  A read outside an allocation yields an arbitrary *)
(* value of Indet (floats) or IndetEntries (entries), chosen at the read.  *)
(* A write outside an allocation does not change the allocation.           *)
(***************************************************************************)
EXTENDS Integers, Sequences, FiniteSets, TLC

\* ------------------------------------------------------------------ bounds

\* Inserts are enabled while size < MaxInserts.
MaxInserts == 3
\* Queries draw top_n from 0..MaxTopN.
MaxTopN == 2

\* ----------------------------------------------------------- number model

\* Fixed-point unit of similarity, score and threshold.
Scale == 1000
\* IEEE not-a-number and +infinity.
NaN == 0 - (Scale * Scale * Scale)
Inf == Scale * Scale * Scale
\* grow_ratio is counted in units of 1/RatioUnit.
RatioUnit == 2
\* The uint32_t value of (uint32_t) -1, the failure result of e4b_index;
\* no other uint32_t of the model comes near the width of the type.
E4B_FAILED == 0 - 1
\* sqrt() is computed to 1/NormUnit.
NormUnit == 10000

Abs(x) == IF x < 0 THEN 0 - x ELSE x
Min(a, b) == IF a < b THEN a ELSE b

\* float comparisons: every comparison with NaN is false.
FGt(a, b) == a # NaN /\ b # NaN /\ a > b
FGe(a, b) == a # NaN /\ b # NaN /\ a >= b

\* ------------------------------------------------------------ input pools

\* Values an out-of-bounds float read may produce.
Indet == {0, 1}
\* Values the random generator draws for a projection component.
ProjVals == {0 - 1, 1}
\* Bytes an out-of-bounds read of a string literal may produce.
KeyChars == {"0", "1", "NUL"}

\* The caller's buffers: texts t1, t2 and embeddings e1, e2, e3.
CallerMem == [t1 |-> "a", t2 |-> "bc",
              e1 |-> <<1, 0>>, e2 |-> <<2>>, e3 |-> <<1, 2>>]
TextPtrs == {"t1", "t2"}
EmbdPtrs == {"e1", "e2", "e3"}

\* The (text, n_text, embd) triples the caller inserts.
Docs == { [text |-> "t1", embd |-> "e1", n_text |-> 1],
          [text |-> "t1", embd |-> "e2", n_text |-> 1],
          [text |-> "t2", embd |-> "e3", n_text |-> 2] }

\* Query thresholds, in units of 1/Scale.
Thresholds == {0, 600}

\* Configurations handed to e4b_init.
StoreParams == [n_embd : {2}, n_hash : {1}, n_init_capacity : {1, 2},
                grow_ratio : {2, 3, 4}, use_persistent_storage : {FALSE}]
               \cup
               [n_embd : {2}, n_hash : {1}, n_init_capacity : {1, 2},
                grow_ratio : {4}, use_persistent_storage : {TRUE}]
HashParams == [n_embd : {0, 1, 2}, n_hash : {0, 1, 2}, n_init_capacity : {1},
               grow_ratio : {4}, use_persistent_storage : {FALSE}]
QueryParams == {p \in StoreParams : p.n_init_capacity = 1 /\ p.grow_ratio = 4
                                     /\ ~p.use_persistent_storage}
Params == StoreParams \cup
          {p \in HashParams : <<p.n_embd, p.n_hash>> \in {<<0, 1>>, <<2, 0>>, <<1, 2>>}}

\* An entry as left by new e4b_entry[n]: its fields are indeterminate.
Uninit == [text |-> "?", embd |-> "?", n_text |-> 0]
\* Entries an out-of-bounds read of the entry array may produce.
IndetEntries == {Uninit, [text |-> "t1", embd |-> "e1", n_text |-> 1]}

\* ------------------------------------------------------------------- state

VARIABLES
    mem,       \* the caller's buffers, by pointer
    live,      \* TRUE once e4b_init has returned a context
    cparams,   \* ctx->cparams
    lsh_ctx,   \* ctx->lsh_ctx: [projections, offsets]
    index,     \* ctx->index: bucket key -> sequence of handles
    entries,   \* ctx->entries: the allocation, entries[h + 1] is slot h
    size,      \* ctx->size
    capacity,  \* ctx->capacity
    pc,        \* the caller: "idle" between calls, "returned" holding a result
    ret,       \* the result the last call returned to the caller
    frame,     \* the locals of an e4b_index call run step by step
    log        \* history: the successful inserts, in order

vars == <<mem, live, cparams, lsh_ctx, index, entries, size, capacity, pc, ret, frame, log>>

\* ---------------------------------------------------------------- helpers

\* The floats at a pointer; a wild pointer has no floats of its own.
Deref(m, ptr) == IF ptr \in DOMAIN m THEN m[ptr] ELSE <<>>

\* The values a read may produce: any of G when it leaves its allocation
\* (oob), else no indeterminate value is involved.
Garbage(oob, G) == IF oob THEN G ELSE {CHOOSE g \in G : TRUE}

\* What reading buf[0 .. n-1] yields: the buffer's own values inside it and
\* the indeterminate value g past its end.
PadView(buf, n, g) == [j \in 1..n |-> IF j <= Len(buf) THEN buf[j] ELSE g]

RECURSIVE Dot(_, _, _)
Dot(a, b, n) == IF n = 0 THEN 0 ELSE Dot(a, b, n - 1) + a[n] * b[n]

\* floor(sqrt(x)) by bisection on lo..hi, for 0 <= x < 2^31.
RECURSIVE ISqrtIn(_, _, _)
ISqrtIn(x, lo, hi) ==
    IF lo >= hi THEN lo
    ELSE LET mid == (lo + hi + 1) \div 2
         IN  IF mid * mid <= x THEN ISqrtIn(x, mid, hi) ELSE ISqrtIn(x, lo, mid - 1)
ISqrt(x) == ISqrtIn(x, 0, 46340)

\* ----------------------------------------------------------------- hashing

\* Mutant: the absolute value is taken before the floor.
lsh_bit_floor_of_abs(dot, offset, n_hash) ==
    LET hi == Abs(dot + offset) \div n_hash
    IN  IF hi % 2 = 1 THEN 1 ELSE 0

\* One bit of the signature: hi = (int) abs(floor((dot + offset) / n_hash)),
\* hash[i] = (hi % 2 == 1).  \div is the floor division.
lsh_bit(dot, offset, n_hash) ==
    LET hi == Abs((dot + offset) \div n_hash)
    IN  IF hi % 2 = 1 THEN 1 ELSE 0

\* e4b_lsh over what it reads: embd[0 .. n-1], projections[i][0 .. n-1] and
\* offsets[i] for i < n_hash; ge, gp, go are the values read out of bounds.
e4b_lsh(lsh, n_hash, embd, n, ge, gp, go) ==
    LET E == PadView(embd, n, ge)
        O == PadView(lsh.offsets, n_hash, go)
    IN  [i \in 1..n_hash |->
            lsh_bit(Dot(E, PadView(lsh.projections[i], n, gp), n), O[i], n_hash)]

\* std::string key("0", n_hash) copies n_hash bytes starting at the literal
\* "0": '0', its terminating NUL, then whatever follows the literal (gc).
key_init(n_hash, gc) ==
    [i \in 1..n_hash |-> IF i = 1 THEN "0" ELSE IF i = 2 THEN "NUL" ELSE gc]

e4b_internal_hash_to_key(hash, n_hash, gc) ==
    LET key == key_init(n_hash, gc)
    IN  [i \in 1..n_hash |-> IF hash[i] > 0 THEN "1" ELSE key[i]]

\* ------------------------------------------------------------ construction

\* No e4b_index call is under way.
NoFrame == [text |-> "?", embd |-> "?", n_text |-> 0, key |-> <<>>,
            idx |-> 0 - 1, entries |-> <<>>]

NoRet == [op |-> "none", status |-> "none", idx |-> 0 - 1, key |-> <<>>,
          embd |-> "?", n_q_embd |-> 0, top_n |-> 0, similarity |-> 0,
          n_results |-> 0, total |-> 0, results |-> <<>>, head |-> 0 - 1,
          value |-> 0]

Init ==
    /\ mem = CallerMem
    /\ live = FALSE
    /\ cparams = [n_embd |-> 0, n_hash |-> 0, n_init_capacity |-> 0,
                  grow_ratio |-> 0, use_persistent_storage |-> FALSE]
    /\ lsh_ctx = [projections |-> <<>>, offsets |-> <<>>]
    /\ index = <<>>
    /\ entries = <<>>
    /\ size = 0
    /\ capacity = 0
    /\ pc = "idle"
    /\ ret = NoRet
    /\ frame = NoFrame
    /\ log = <<>>

\* e4b_lsh_context(n_hash, n_embd): n_hash projection vectors of n_embd
\* floats, and n_embd offsets, all zero.
e4b_lsh_context(n_hash, n_embd) ==
    [projections |-> [i \in 1..n_hash |-> [j \in 1..n_embd |-> 0]],
     offsets |-> [j \in 1..n_embd |-> 0]]

\* The initialisation loop of e4b_init: nd are the normal draws and ud the
\* uniform draws; offsets[i] = ud[i] is a write out of bounds for i >= n_embd.
lsh_randomize(lsh, n_hash, n_embd, nd, ud) ==
    [projections |-> [i \in 1..n_hash |-> [j \in 1..n_embd |-> nd[i][j]]],
     offsets |-> [i \in 1..Len(lsh.offsets) |->
                     IF i <= n_hash THEN ud[i] ELSE lsh.offsets[i]]]

e4b_init(p) ==
    /\ pc = "idle"
    /\ ~live
    /\ \E nd \in [1..p.n_hash -> [1..p.n_embd -> ProjVals]],
          ud \in [1..p.n_hash -> 0..(p.n_hash - 1)] :
          lsh_ctx' = lsh_randomize(e4b_lsh_context(p.n_hash, p.n_embd),
                                   p.n_hash, p.n_embd, nd, ud)
    /\ live' = TRUE
    /\ cparams' = p
    /\ capacity' = p.n_init_capacity
    /\ entries' = [i \in 1..(p.n_init_capacity) |-> Uninit]
    /\ size' = 0
    /\ index' = <<>>
    /\ ret' = [NoRet EXCEPT !.op = "init", !.status = "ok"]
    /\ pc' = "returned"
    /\ UNCHANGED <<mem, frame, log>>

\* ------------------------------------------------------------------ insert

\* Mutant: growth is taken to succeed on persistent storage too.
grow_fails_never(p) == FALSE

\* e4b_internal_grow returns false, and changes nothing, when the storage
\* is persistent.
grow_fails(p) == p.use_persistent_storage

\* Mutant: growth adds one slot instead of multiplying the capacity.
grow_capacity_increment(grow_ratio, cap) == cap + 1

\* ctx->capacity = (uint32_t) ctx->cparams.grow_ratio * ctx->capacity: the
\* cast applies to grow_ratio alone and truncates it.
grow_capacity(grow_ratio, cap) == ((grow_ratio \div RatioUnit) * cap)

\* new e4b_entry[capacity], then entries[i] = ctx->entries[i] for i < size.
grow_entries(old, sz, cap) ==
    [i \in 1..cap |-> IF i <= sz /\ i <= Len(old) THEN old[i] ELSE Uninit]

\* ctx->entries[idx] = e; for idx >= capacity the write is out of bounds.
store_entry(ents, idx, e) ==
    IF idx < Len(ents) THEN [ents EXCEPT ![idx + 1] = e] ELSE ents

\* Mutant: the bucket is overwritten with the new handle instead of extended.
bucket_push_overwrite(ix, key, idx) ==
    [k \in DOMAIN ix \cup {key} |-> IF k = key THEN <<idx>> ELSE ix[k]]

\* ctx->index[key].push_back(idx)
bucket_push(ix, key, idx) ==
    [k \in DOMAIN ix \cup {key} |->
        IF k = key THEN Append(IF key \in DOMAIN ix THEN ix[key] ELSE <<>>, idx)
        ELSE ix[k]]

\* Mutant: idx = ++ctx->size.
next_idx_preincrement(sz) == sz + 1

\* uint32_t idx = ctx->size++
next_idx(sz) == sz

\* History of one successful insert: the handle returned, the entry and key
\* passed to the store, the contents of the caller's buffers at the call and
\* ctx->capacity after it.
log_record(idx, e, key, m, cap) ==
    [idx |-> idx, entry |-> e, key |-> key,
     text_value |-> Deref(m, e.text), embd_value |-> Deref(m, e.embd),
     capacity |-> cap]

e4b_index(text, n_text, embd) ==
    /\ pc = "idle"
    /\ live
    /\ size < MaxInserts
    /\ \E ge \in Garbage(cparams.n_embd > Len(Deref(mem, embd)), Indet),
          gp \in Garbage(FALSE, Indet),
          go \in Garbage(cparams.n_hash > Len(lsh_ctx.offsets), Indet),
          gc \in Garbage(cparams.n_hash > 2, KeyChars) :
        LET hash == e4b_lsh(lsh_ctx, cparams.n_hash, Deref(mem, embd), cparams.n_embd, ge, gp, go)
            key == e4b_internal_hash_to_key(hash, cparams.n_hash, gc)
            full == capacity = size
        IN  IF full /\ grow_fails(cparams)
            THEN /\ ret' = [NoRet EXCEPT !.op = "index", !.status = "failed",
                                         !.idx = E4B_FAILED, !.key = key, !.embd = embd]
                 /\ UNCHANGED <<index, entries, size, capacity, log>>
            ELSE LET cap == IF full THEN grow_capacity(cparams.grow_ratio, capacity)
                            ELSE capacity
                     ents == IF full THEN grow_entries(entries, size, cap) ELSE entries
                     idx == next_idx(size)
                     e == [text |-> text, embd |-> embd, n_text |-> n_text]
                 IN  /\ capacity' = cap
                     /\ size' = (size + 1)
                     /\ entries' = store_entry(ents, idx, e)
                     /\ index' = bucket_push(index, key, idx)
                     /\ ret' = [NoRet EXCEPT !.op = "index", !.status = "ok",
                                             !.idx = idx, !.key = key, !.embd = embd]
                     /\ log' = Append(log, log_record(idx, e, key, mem, cap))
    /\ pc' = "returned"
    /\ UNCHANGED <<mem, live, cparams, lsh_ctx, frame>>

\* ------------------------------------------------------------------- query

\* Mutant: the norm of the first vector is used for both.
e4b_cosine_similarity_one_norm(embd_a, embd_b, n_embd) ==
    LET dot == Dot(embd_a, embd_b, n_embd)
        norm1 == ISqrt(Dot(embd_a, embd_a, n_embd) * NormUnit * NormUnit)
        den == (norm1 * norm1) \div ((NormUnit * NormUnit) \div Scale)
    IN  IF den = 0 THEN (IF dot = 0 THEN NaN ELSE Inf)
        ELSE (dot * Scale * Scale) \div den

\* e4b_cosine_similarity over the n floats read at each pointer, in 1/Scale:
\* dot / (sqrt(norm1) * sqrt(norm2)); 0/0 is NaN.
e4b_cosine_similarity(embd_a, embd_b, n_embd) ==
    LET dot == Dot(embd_a, embd_b, n_embd)
        norm1 == ISqrt(Dot(embd_a, embd_a, n_embd) * NormUnit * NormUnit)
        norm2 == ISqrt(Dot(embd_b, embd_b, n_embd) * NormUnit * NormUnit)
        den == (norm1 * norm2) \div ((NormUnit * NormUnit) \div Scale)
    IN  IF den = 0 THEN (IF dot = 0 THEN NaN ELSE Inf)
        ELSE (dot * Scale * Scale) \div den

\* auto score = 1 / (1 + similarity), in 1/Scale.
score_of(similarity) ==
    IF similarity = NaN THEN NaN
    ELSE IF similarity = Inf THEN 0
    ELSE IF Scale + similarity = 0 THEN Inf
    ELSE (Scale * Scale) \div (Scale + similarity)

\* The embedding the lambda of e4b_query scores candidate idx against:
\* entries->embd, the embd of the first slot of ctx->entries.
scored_embd(ents, idx) == IF Len(ents) > 0 THEN ents[1].embd ELSE "?"

\* What const auto &entry = ctx->entries[idx] may read.
read_entry(ents, idx) ==
    IF idx < Len(ents) THEN {ents[idx + 1]} ELSE IndetEntries

\* What the reads of ctx->entries[idx] for the idx of a bucket may yield.
read_entries(ents, bucket) ==
    IF \A k \in 1..Len(bucket) : bucket[k] < Len(ents)
    THEN {[k \in 1..Len(bucket) |-> ents[bucket[k] + 1]]}
    ELSE {r \in [1..Len(bucket) -> UNION {read_entry(ents, bucket[k]) : k \in 1..Len(bucket)}] :
             \A k \in 1..Len(bucket) : r[k] \in read_entry(ents, bucket[k])}

\* The comparator of the std::sort call: a before b.
result_less(a, b) == FGt(a.score, b.score)

\* The orders std::sort may leave v in: no element is before one that the
\* comparator puts before it; elements the comparator does not order may end
\* in any order.
Sorted(v) ==
    LET n == Len(v)
        perms == {p \in [1..n -> 1..n] : \A i, j \in 1..n : i # j => p[i] # p[j]}
    IN  {[k \in 1..n |-> v[p[k]]] : p \in
            {p \in perms : \A i, j \in 1..n : i < j => ~result_less(v[p[j]], v[p[i]])}}

\* Mutant: the loop runs over all of v_results instead of the first capacity.
select_results_unbounded(v_results, cap, similarity) ==
    SelectSeq(v_results, LAMBDA r : FGe(r.score, similarity))

\* The selection loop: the first min(top_n, total) of v_results, those with
\* result->score >= similarity kept in order.
RECURSIVE select_results(_, _, _)
select_results(v_results, cap, similarity) ==
    IF cap = 0 THEN <<>>
    ELSE LET rest == select_results(v_results, cap - 1, similarity)
         IN  IF FGe(v_results[cap].score, similarity)
             THEN Append(rest, v_results[cap]) ELSE rest

\* Mutant: the bucket is looked up with operator[], which default-constructs
\* the bucket of a key that is not in the map.
index_subscript(ix, key) ==
    IF key \in DOMAIN ix THEN ix
    ELSE [k \in DOMAIN ix \cup {key} |-> IF k = key THEN <<>> ELSE ix[k]]

\* ctx->index after ctx->index.at(key) on the const context: at() finds the
\* bucket or throws, it never inserts a key.
index_at(ix, key) == ix

e4b_query(q_embd, n_q_embd, top_n, similarity) ==
    /\ pc = "idle"
    /\ live
    /\ \E ge \in Garbage(cparams.n_embd > Len(Deref(mem, q_embd))
                            \/ n_q_embd > Len(Deref(mem, q_embd)), Indet),
          gp \in Garbage(n_q_embd > cparams.n_embd, Indet),
          go \in Garbage(cparams.n_hash > Len(lsh_ctx.offsets), Indet),
          gc \in Garbage(cparams.n_hash > 2, KeyChars) :
        LET q_hash == e4b_lsh(lsh_ctx, cparams.n_hash, Deref(mem, q_embd), n_q_embd, ge, gp, go)
            key == e4b_internal_hash_to_key(q_hash, cparams.n_hash, gc)
            call == [NoRet EXCEPT !.op = "query", !.key = key, !.embd = q_embd,
                                  !.n_q_embd = n_q_embd, !.top_n = top_n,
                                  !.similarity = similarity]
        IN  /\ index' = index_at(index, key)
            /\ IF key \notin DOMAIN index
               THEN \* ctx->index.at(key) throws std::out_of_range
                    ret' = [call EXCEPT !.status = "out_of_range"]
               ELSE
                 LET bucket == index[key] IN
                 IF Len(bucket) = 0
                 THEN ret' = [call EXCEPT !.status = "ok"]
                 ELSE \E read \in read_entries(entries, bucket) :
                        /\ LET Q == PadView(Deref(mem, q_embd), cparams.n_embd, ge)
                               v_results ==
                                 [k \in 1..Len(bucket) |->
                                    [idx |-> bucket[k],
                                     entry |-> read[k],
                                     score |-> score_of(e4b_cosine_similarity(Q,
                                        PadView(Deref(mem, scored_embd(entries, bucket[k])),
                                                cparams.n_embd, ge),
                                        cparams.n_embd))]]
                           IN  \E sorted \in Sorted(v_results) :
                                 LET total == Len(sorted)
                                     results == select_results(sorted, Min(top_n, total), similarity)
                                 IN  ret' = [call EXCEPT
                                        !.status = "ok",
                                        !.n_results = Len(results),
                                        !.total = total,
                                        !.results = results,
                                        \* *results: the first pointer of the array,
                                        \* never written when nothing was selected
                                        !.head = IF Len(results) > 0 THEN results[1].idx
                                                 ELSE E4B_FAILED]
    /\ pc' = "returned"
    /\ UNCHANGED <<mem, live, cparams, lsh_ctx, entries, size, capacity, frame, log>>

\* ------------------------------------------------------------ the program

\* The caller takes the result of a call and goes on to its next call.
caller_continue ==
    /\ pc = "returned"
    /\ pc' = "idle"
    /\ ret' = NoRet
    /\ UNCHANGED <<mem, live, cparams, lsh_ctx, index, entries, size, capacity, frame, log>>

\* The program over the configurations P and the queries Q x N x T.
NextOver(P, Q, N, T) ==
    \/ \E p \in P : e4b_init(p)
    \/ \E d \in Docs : e4b_index(d.text, d.n_text, d.embd)
    \/ \E q \in Q, top_n \in N, similarity \in T :
          e4b_query(q, Len(mem[q]), top_n, similarity)
    \/ caller_continue

\* Every query on a few configurations.
Next == NextOver(QueryParams, EmbdPtrs, 0..MaxTopN, Thresholds)
Spec == Init /\ [][Next]_vars

\* Every configuration with one query.
NextStore == NextOver(Params, {"e1"}, {1}, {0})
SpecStore == Init /\ [][NextStore]_vars

\* What the caller writes into its own buffers after handing them to e4b_index.
Overwrites == { [ptr |-> "e1", value |-> <<0, 1>>],
                [ptr |-> "t1", value |-> "z"] }

\* The caller reuses a buffer it passed as const char * text or
\* const float * embd: the buffers stay the caller's.
caller_overwrite(ptr, value) ==
    /\ pc = "idle"
    /\ mem[ptr] # value
    /\ mem' = [mem EXCEPT ![ptr] = value]
    /\ UNCHANGED <<live, cparams, lsh_ctx, index, entries, size, capacity, pc, ret, frame, log>>

\* The program of a caller that reuses its buffers between the calls.
NextOwn ==
    \/ NextOver(QueryParams, {"e1"}, {1}, {0})
    \/ \E w \in Overwrites : caller_overwrite(w.ptr, w.value)
SpecOwn == Init /\ [][NextOwn]_vars

\* The vectors handed to the similarity function on its own: those of the
\* repository's test and others of the same width.
CosWidth == 4
CosVectors == { <<0, 1, 2, 3>>, <<0, 0, 1, 2>>, <<1, 0, 0, 0>>, <<0, 1, 0, 0>>,
                <<1, 1, 1, 1>>, <<2, 2, 2, 2>>, <<0, 0, 0, 0>>, <<3, 2, 2, 2>>,
                <<0, 0 - 1, 0 - 2, 0 - 3>>, <<1, 0 - 1, 0, 2>>, <<0, 0, 2, 1>>,
                <<1, 2, 3, 0>> }

\* The caller holds two vectors embd_a and embd_b and no context.
InitCos ==
    /\ mem \in [a : CosVectors, b : CosVectors]
    /\ live = FALSE
    /\ cparams = [n_embd |-> 0, n_hash |-> 0, n_init_capacity |-> 0,
                  grow_ratio |-> 0, use_persistent_storage |-> FALSE]
    /\ lsh_ctx = [projections |-> <<>>, offsets |-> <<>>]
    /\ index = <<>>
    /\ entries = <<>>
    /\ size = 0
    /\ capacity = 0
    /\ pc = "idle"
    /\ ret = NoRet
    /\ frame = NoFrame
    /\ log = <<>>

\* similarity = fn(embd_a.data(), embd_b.data(), 4)
cosine_call ==
    /\ pc = "idle"
    /\ ret' = [NoRet EXCEPT !.op = "cosine", !.status = "ok",
                            !.value = e4b_cosine_similarity(mem.a, mem.b, CosWidth)]
    /\ pc' = "returned"
    /\ UNCHANGED <<mem, live, cparams, lsh_ctx, index, entries, size, capacity, frame, log>>

\* The program that calls the similarity function on its own.
NextCos ==
    \/ cosine_call
    \/ caller_continue
SpecCos == InitCos /\ [][NextCos]_vars

\* ------------------------------------------- e4b_index, statement by statement

\* Configurations of the statement-level program.
StepParams == {p \in StoreParams : p.n_init_capacity = 1 /\ p.grow_ratio = 2 * RatioUnit}

\* fn_hash and e4b_internal_hash_to_key: the key is a local of the call.
index_begin(text, n_text, embd) ==
    /\ pc = "idle"
    /\ live
    /\ size < MaxInserts
    /\ \E ge \in Garbage(cparams.n_embd > Len(Deref(mem, embd)), Indet),
          gp \in Garbage(FALSE, Indet),
          go \in Garbage(cparams.n_hash > Len(lsh_ctx.offsets), Indet),
          gc \in Garbage(cparams.n_hash > 2, KeyChars) :
        LET hash == e4b_lsh(lsh_ctx, cparams.n_hash, Deref(mem, embd), cparams.n_embd, ge, gp, go)
        IN  frame' = [NoFrame EXCEPT !.text = text, !.embd = embd, !.n_text = n_text,
                         !.key = e4b_internal_hash_to_key(hash, cparams.n_hash, gc)]
    /\ pc' = "check"
    /\ UNCHANGED <<mem, live, cparams, lsh_ctx, index, entries, size, capacity, ret, log>>

\* if (ctx->capacity == ctx->size && !e4b_internal_grow(ctx)) return -1, up
\* to the test of use_persistent_storage inside e4b_internal_grow.
index_check ==
    /\ pc = "check"
    /\ IF capacity = size /\ grow_fails(cparams)
       THEN /\ ret' = [NoRet EXCEPT !.op = "index", !.status = "failed",
                                    !.idx = E4B_FAILED, !.key = frame.key,
                                    !.embd = frame.embd]
            /\ frame' = NoFrame
            /\ pc' = "returned"
       ELSE /\ pc' = (IF capacity = size THEN "grow_capacity" ELSE "next_idx")
            /\ UNCHANGED <<ret, frame>>
    /\ UNCHANGED <<mem, live, cparams, lsh_ctx, index, entries, size, capacity, log>>

\* ctx->capacity = (uint32_t) ctx->cparams.grow_ratio * ctx->capacity
grow_set_capacity ==
    /\ pc = "grow_capacity"
    /\ capacity' = grow_capacity(cparams.grow_ratio, capacity)
    /\ pc' = "grow_alloc"
    /\ UNCHANGED <<mem, live, cparams, lsh_ctx, index, entries, size, ret, frame, log>>

\* auto * entries = new e4b_entry[ctx->capacity]
grow_alloc ==
    /\ pc = "grow_alloc"
    /\ frame' = [frame EXCEPT !.entries = grow_entries(<<>>, 0, capacity)]
    /\ pc' = "grow_copy"
    /\ UNCHANGED <<mem, live, cparams, lsh_ctx, index, entries, size, capacity, ret, log>>

\* for (i < ctx->size) entries[i] = ctx->entries[i]
grow_copy ==
    /\ pc = "grow_copy"
    /\ frame' = [frame EXCEPT !.entries = grow_entries(entries, size, capacity)]
    /\ pc' = "grow_delete"
    /\ UNCHANGED <<mem, live, cparams, lsh_ctx, index, entries, size, capacity, ret, log>>

\* delete ctx->entries: ctx->entries dangles, no slot of it can be read.
grow_delete ==
    /\ pc = "grow_delete"
    /\ entries' = <<>>
    /\ pc' = "grow_assign"
    /\ UNCHANGED <<mem, live, cparams, lsh_ctx, index, size, capacity, ret, frame, log>>

\* ctx->entries = entries; return true
grow_assign ==
    /\ pc = "grow_assign"
    /\ entries' = frame.entries
    /\ frame' = [frame EXCEPT !.entries = <<>>]
    /\ pc' = "next_idx"
    /\ UNCHANGED <<mem, live, cparams, lsh_ctx, index, size, capacity, ret, log>>

\* uint32_t idx = ctx->size++
index_next_idx ==
    /\ pc = "next_idx"
    /\ frame' = [frame EXCEPT !.idx = next_idx(size)]
    /\ size' = size + 1
    /\ pc' = "store"
    /\ UNCHANGED <<mem, live, cparams, lsh_ctx, index, entries, capacity, ret, log>>

\* ctx->entries[idx] = e4b_entry{text, embd, n_text}
index_store ==
    /\ pc = "store"
    /\ entries' = store_entry(entries, frame.idx,
                     [text |-> frame.text, embd |-> frame.embd, n_text |-> frame.n_text])
    /\ pc' = "push"
    /\ UNCHANGED <<mem, live, cparams, lsh_ctx, index, size, capacity, ret, frame, log>>

\* ctx->index[key].push_back(idx)
index_push ==
    /\ pc = "push"
    /\ index' = bucket_push(index, frame.key, frame.idx)
    /\ pc' = "return"
    /\ UNCHANGED <<mem, live, cparams, lsh_ctx, entries, size, capacity, ret, frame, log>>

\* return idx
index_return ==
    /\ pc = "return"
    /\ ret' = [NoRet EXCEPT !.op = "index", !.status = "ok", !.idx = frame.idx,
                            !.key = frame.key, !.embd = frame.embd]
    /\ log' = Append(log, log_record(frame.idx,
                  [text |-> frame.text, embd |-> frame.embd, n_text |-> frame.n_text],
                  frame.key, mem, capacity))
    /\ frame' = NoFrame
    /\ pc' = "returned"
    /\ UNCHANGED <<mem, live, cparams, lsh_ctx, index, entries, size, capacity>>

\* The program with every statement of an insert as a step of its own.
NextSteps ==
    \/ \E p \in StepParams : e4b_init(p)
    \/ \E d \in Docs : index_begin(d.text, d.n_text, d.embd)
    \/ index_check
    \/ grow_set_capacity
    \/ grow_alloc
    \/ grow_copy
    \/ grow_delete
    \/ grow_assign
    \/ index_next_idx
    \/ index_store
    \/ index_push
    \/ index_return
    \/ caller_continue
SpecSteps == Init /\ [][NextSteps]_vars

\* ------------------------------------------------------------------ claims

\* The handles of all buckets, as <<key, position>> pairs holding handle h.
Places(h) == {kp \in UNION {{<<k, i>> : i \in 1..Len(index[k])} : k \in DOMAIN index} :
                 index[kp[1]][kp[2]] = h}

\* The keys e4b_index may compute for the embedding at embd.
KeysOf(embd) ==
    {e4b_internal_hash_to_key(
        e4b_lsh(lsh_ctx, cparams.n_hash, Deref(mem, embd), cparams.n_embd, ge, 0, go),
        cparams.n_hash, gc) : ge \in Indet, go \in Indet, gc \in KeyChars}

\* The raw similarity_fn value of the query embedding q against embedding e.
RawSimilarity(q, e) == e4b_cosine_similarity(mem[q], mem[e], cparams.n_embd)

ReturnedFrom(op) == pc = "returned" /\ ret.op = op

\* C1: the k-th successful insert returns handle k - 1, with or without a
\* growth of the entry store: the handles are 0, 1, 2, ... in order.
C1_HandleMonotonicity ==
    /\ \A k \in 1..Len(log) : log[k].idx = k - 1
    /\ (ReturnedFrom("index") /\ ret.status = "ok") => ret.idx = Len(log) - 1

\* C1 witness: the third insert returned handle 2 after the store has grown.
C1_Witness ==
    /\ ReturnedFrom("index") /\ ret.status = "ok" /\ ret.idx = 2
    /\ capacity > cparams.n_init_capacity

\* C2: with grow_ratio > 1 and initial_capacity >= 1, in non-persistent
\* mode, size <= capacity after any number of inserts.
C2_CapacityInvariant ==
    (/\ live
     /\ ~cparams.use_persistent_storage
     /\ cparams.grow_ratio > RatioUnit
     /\ cparams.n_init_capacity >= 1) => (0 <= size /\ size <= capacity)

\* C3: for every handle h < size the entry stored at position h is the
\* text, text length and embedding passed to the insert that returned h.
\* Stated for the configurations with grow_ratio > 1.
C3_EntryPreserved ==
    (live /\ cparams.grow_ratio > RatioUnit) => \A h \in 0..(size - 1) :
                /\ h + 1 <= Len(log)
                /\ read_entry(entries, h) = {log[h + 1].entry}

\* C4: every handle returned by an insert is in the bucket index exactly
\* once, in the bucket keyed by the signature of its embedding; nothing else
\* is in a bucket; the handles of a bucket are in insertion order.
C4_BucketContainment ==
    /\ \A k \in 1..Len(log) :
          /\ log[k].key \in KeysOf(log[k].entry.embd)
          /\ log[k].key \in DOMAIN index
          /\ Cardinality(Places(log[k].idx)) = 1
          /\ \E i \in 1..Len(index[log[k].key]) : index[log[k].key][i] = log[k].idx
    /\ \A b \in DOMAIN index :
          /\ \A i \in 1..Len(index[b]) : \E k \in 1..Len(log) : log[k].idx = index[b][i]
          /\ \A i, j \in 1..Len(index[b]) : i < j => index[b][i] < index[b][j]

\* C4 witness: two buckets, one of them holding two handles.
C4_Witness ==
    /\ Cardinality(DOMAIN index) >= 2
    /\ \E b \in DOMAIN index : Len(index[b]) >= 2

\* C5: the results of a query are in descending order of the raw value of
\* similarity_fn(query embedding, entry embedding).  Stated for embeddings of
\* the configured width, where every value read is determinate, and for the
\* outcomes of std::sort that leave candidates of equal score in bucket order.
C5_RankedBySimilarity ==
    (/\ ReturnedFrom("query") /\ ret.status = "ok"
     /\ Len(mem[ret.embd]) = cparams.n_embd
     /\ \A i, j \in 1..Len(ret.results) :
           (i < j /\ ret.results[i].score = ret.results[j].score)
              => ret.results[i].idx < ret.results[j].idx) =>
        \A i, j \in 1..Len(ret.results) :
            (/\ i < j
             /\ ret.results[i].entry.embd \in EmbdPtrs
             /\ ret.results[j].entry.embd \in EmbdPtrs
             /\ Len(mem[ret.results[i].entry.embd]) = cparams.n_embd
             /\ Len(mem[ret.results[j].entry.embd]) = cparams.n_embd) =>
                FGe(RawSimilarity(ret.embd, ret.results[i].entry.embd),
                    RawSimilarity(ret.embd, ret.results[j].entry.embd))

\* C6: a query that returns has n_results <= top_n and n_results <= total,
\* where total is the size of the bucket of the query's signature.
C6_QueryCap ==
    (ReturnedFrom("query") /\ ret.status = "ok") =>
        /\ ret.n_results <= ret.top_n
        /\ ret.n_results <= ret.total
        /\ ret.n_results = Len(ret.results)
        /\ ret.key \in DOMAIN index
        /\ ret.total = Len(index[ret.key])

\* C6 witness: a query cut off by top_n returned top_n results of a larger bucket.
C6_Witness ==
    /\ ReturnedFrom("query") /\ ret.status = "ok"
    /\ ret.top_n >= 1 /\ ret.total > ret.top_n /\ ret.n_results = ret.top_n

\* C7: a query whose signature has no bucket returns normally, with
\* n_results = 0 and total = 0.
C7_MissReturnsEmpty ==
    (ReturnedFrom("query") /\ ret.key \notin DOMAIN index) =>
        /\ ret.status = "ok"
        /\ ret.n_results = 0
        /\ ret.total = 0

\* C8: in persistent mode an insert at size = capacity fails, returns no
\* handle and leaves size, capacity, the entries and the bucket index as they
\* were; an insert at size < capacity succeeds.
C8_PersistentGrowth ==
    [][(/\ pc = "idle" /\ live /\ cparams.use_persistent_storage
        /\ pc' = "returned" /\ ret'.op = "index") =>
            IF size = capacity
            THEN /\ ret'.status = "failed" /\ ret'.idx = E4B_FAILED
                 /\ UNCHANGED <<size, capacity, entries, index, log>>
            ELSE /\ ret'.status = "ok" /\ ret'.idx = size
                 /\ size' = size + 1 /\ capacity' = capacity
                 /\ read_entry(entries', size) = {log'[size + 1].entry}]_vars

\* C8 witness: an insert failed on a full persistent store that holds entries.
C8_Witness ==
    /\ ReturnedFrom("index") /\ ret.status = "failed"
    /\ cparams.use_persistent_storage /\ size = capacity /\ size >= 1
    /\ Len(log) = size

\* C9: an insert or a query with an embedding whose length is not
\* embedding_width fails with DimensionMismatch.
C9_DimensionGuard ==
    (/\ pc = "returned" /\ ret.op \in {"index", "query"}
     /\ Len(mem[ret.embd]) # cparams.n_embd) => ret.status = "dimension_mismatch"

\* C10: no index exists whose configuration has embedding_width = 0,
\* hash_count = 0 or grow_ratio <= 1.
C10_ValidConfiguration ==
    live => /\ cparams.n_embd # 0
            /\ cparams.n_hash # 0
            /\ cparams.grow_ratio > RatioUnit


\* C11: the store holds its own copy of the text and the embedding of every
\* inserted entry: whatever the caller writes into its buffers afterwards,
\* what is read through handle h is what was passed to the insert.
C11_EntryOwnership ==
    \A k \in 1..Len(log) :
        log[k].idx < Len(entries) =>
            \A e \in read_entry(entries, log[k].idx) :
                /\ Deref(mem, e.text) = log[k].text_value
                /\ Deref(mem, e.embd) = log[k].embd_value

\* The store of the growth scenario: initial_capacity = 1, grow_ratio = 2.0,
\* growable storage.
GrowthScenario ==
    /\ live /\ cparams.n_init_capacity = 1 /\ cparams.grow_ratio = 2 * RatioUnit
    /\ ~cparams.use_persistent_storage

\* The inserts so far that changed the capacity.
Growths ==
    {k \in 1..Len(log) :
        log[k].capacity # (IF k = 1 THEN cparams.n_init_capacity ELSE log[k - 1].capacity)}

\* C12: with initial_capacity = 1 and grow_ratio = 2, three successive
\* inserts trigger exactly one growth, 1 -> 2 at the second insert, and the
\* growth 2 -> 4 has not occurred once the third insert has returned.
C12_GrowthSchedule ==
    (GrowthScenario /\ Len(log) = 3) =>
        /\ Growths = {2}
        /\ log[2].capacity = 2
        /\ capacity = 2

\* C12 as amended: the store grows at every insert that finds size = capacity,
\* so three successive inserts trigger two growths, 1 -> 2 at the second
\* insert and 2 -> 4 at the third; the capacity is 4 once the third insert
\* has returned.
C12_GrowthAtFullStore ==
    GrowthScenario =>
        /\ \A k \in 1..Min(Len(log), 3) : log[k].capacity = <<1, 2, 4>>[k]
        /\ Len(log) = 3 => (Growths = {2, 3} /\ capacity = 4 /\ size = 3)

\* C12 witness: the third insert has returned and found the store grown twice.
C12_Witness ==
    /\ GrowthScenario /\ ReturnedFrom("index") /\ ret.status = "ok" /\ ret.idx = 2
    /\ Len(log) = 3 /\ capacity = 4

\* x is v within one unit of 1/Scale, for the exact quotient v = num / sqrt(p2)
\* given by its numerator and the square of its denominator.
WithinUnit(x, num, p2) ==
    /\ x * num >= 0
    /\ (IF Abs(x) >= 1 THEN (Abs(x) - 1) * (Abs(x) - 1) * p2 ELSE 0) <= (Scale * num) * (Scale * num)
    /\ (Scale * num) * (Scale * num) <= (Abs(x) + 1) * (Abs(x) + 1) * p2

\* C13: for non-zero vectors a and b of equal length e4b_cosine_similarity
\* returns dot(a,b) / (|a| |b|) within 1e-3: 1.0 for identical vectors, 0.956
\* for [0,1,2,3] against [0,0,1,2], and the same value with a and b exchanged.
C13_CosineSimilarity ==
    (/\ ReturnedFrom("cosine")
     /\ Dot(mem.a, mem.a, CosWidth) # 0 /\ Dot(mem.b, mem.b, CosWidth) # 0) =>
        /\ WithinUnit(ret.value, Dot(mem.a, mem.b, CosWidth),
                      Dot(mem.a, mem.a, CosWidth) * Dot(mem.b, mem.b, CosWidth))
        /\ mem.a = mem.b => Abs(ret.value - Scale) <= 1
        /\ (mem.a = <<0, 1, 2, 3>> /\ mem.b = <<0, 0, 1, 2>>) => Abs(ret.value - 956) <= 1
        /\ ret.value = e4b_cosine_similarity(mem.b, mem.a, CosWidth)

\* C13 witness: the call of the repository's test on [0,1,2,3] and [0,0,1,2]
\* has returned 0.956.
C13_Witness ==
    /\ ReturnedFrom("cosine")
    /\ mem.a = <<0, 1, 2, 3>> /\ mem.b = <<0, 0, 1, 2>>
    /\ ret.value = 956

\* A query has returned results for a query embedding of the configured
\* width, and every entry of its bucket holds an embedding of that width.
QueryAnswered ==
    /\ ReturnedFrom("query") /\ ret.status = "ok"
    /\ Len(mem[ret.embd]) = cparams.n_embd
    /\ ret.key \in DOMAIN index
    /\ \A k \in 1..Len(index[ret.key]) :
          /\ index[ret.key][k] < Len(entries)
          /\ entries[index[ret.key][k] + 1].embd \in DOMAIN mem
          /\ Len(mem[entries[index[ret.key][k] + 1].embd]) = cparams.n_embd

\* C14: the score attached to candidate handle h is the similarity of the
\* query embedding and the embedding of entry h itself (as returned by
\* similarity_fn, or as the code transforms it), never that of another entry.
C14_PerCandidateScoring ==
    QueryAnswered =>
        \A i \in 1..Len(ret.results) :
            LET own == RawSimilarity(ret.embd, entries[ret.results[i].idx + 1].embd)
            IN  ret.results[i].score \in {own, score_of(own)}

\* C15: the results of a query are the candidates among the first
\* min(top_n, total) of the ranked list whose similarity_fn value is at least
\* the threshold: no more than min(top_n, total) results, none below the
\* threshold, and none at or above it left out when nothing is cut off.
C15_TruncateThenFilter ==
    QueryAnswered =>
        /\ ret.n_results = Len(ret.results)
        /\ ret.n_results <= Min(ret.top_n, ret.total)
        /\ \A i \in 1..Len(ret.results) :
              FGe(RawSimilarity(ret.embd, entries[ret.results[i].idx + 1].embd), ret.similarity)
        /\ ret.total <= ret.top_n =>
              \A k \in 1..Len(index[ret.key]) :
                  FGe(RawSimilarity(ret.embd, entries[index[ret.key][k] + 1].embd), ret.similarity)
                      => \E i \in 1..Len(ret.results) : ret.results[i].idx = index[ret.key][k]

\* C16: of two candidates with equal score the one with the smaller handle is
\* ranked first.
C16_DeterministicTieBreak ==
    QueryAnswered =>
        \A i, j \in 1..Len(ret.results) :
            (i < j /\ ret.results[i].score = ret.results[j].score)
                => ret.results[i].idx < ret.results[j].idx

\* The numerator dot_i + offsets[i] of v_i for the embedding of the insert
\* that has returned.
HashNumerator(i) ==
    Dot(mem[ret.embd], lsh_ctx.projections[i], cparams.n_embd) + lsh_ctx.offsets[i]

\* An insert has returned and bit i of its signature was computed from values
\* read inside the embedding and inside offsets.
SignatureBitOf(i) ==
    /\ ReturnedFrom("index") /\ ret.status = "ok"
    /\ cparams.n_embd <= Len(mem[ret.embd])
    /\ i \in 1..cparams.n_hash /\ i <= Len(lsh_ctx.offsets)

\* C17: bit i of the signature is floor(|v_i|) mod 2 for
\* v_i = (dot_i + offsets[i]) / hash_count, negative non-integer v_i included.
C17_SignatureBitFormula ==
    \A i \in 1..cparams.n_hash :
        SignatureBitOf(i) =>
            (ret.key[i] = "1") = ((Abs(HashNumerator(i)) \div cparams.n_hash) % 2 = 1)

\* C17 as amended: bit i of the signature is |floor(v_i)| mod 2, the floor
\* taken before the absolute value, so a negative non-integer v_i is rounded
\* away from zero.
C17_SignatureBitAbsOfFloor ==
    \A i \in 1..cparams.n_hash :
        SignatureBitOf(i) =>
            (ret.key[i] = "1") = (Abs(HashNumerator(i) \div cparams.n_hash) % 2 = 1)

\* C17 witness: an insert has returned whose v_1 is -1/2, with bit 1 set.
C17_Witness ==
    /\ SignatureBitOf(1)
    /\ cparams.n_hash = 2 /\ HashNumerator(1) = 0 - 1
    /\ ret.key[1] = "1"

\* C18: the projector holds exactly hash_count offsets and hash_count
\* projection vectors of length embedding_width, so offsets[i] is inside the
\* allocation for every i < hash_count, also when hash_count exceeds
\* embedding_width.
C18_ProjectorShape ==
    (live /\ cparams.n_embd >= 1 /\ cparams.n_hash > cparams.n_embd) =>
        /\ Len(lsh_ctx.offsets) = cparams.n_hash
        /\ Len(lsh_ctx.projections) = cparams.n_hash
        /\ \A i \in 1..cparams.n_hash : Len(lsh_ctx.projections[i]) = cparams.n_embd
        /\ \A i \in 1..cparams.n_hash : i \in DOMAIN lsh_ctx.offsets

\* C19: in every state of an insert, between any two of its steps, every
\* handle of every bucket is below size and refers to a written entry of the
\* current entry array, and the capacity is that of the current entry array
\* (the store is never partially grown).
C19_InsertVisibility ==
    live =>
        /\ \A b \in DOMAIN index : \A i \in 1..Len(index[b]) :
              /\ index[b][i] < size
              /\ index[b][i] < Len(entries)
              /\ entries[index[b][i] + 1] # Uninit
        /\ capacity = Len(entries)

\* C20: a query, whether it hits or misses, leaves size, capacity, the stored
\* entries, the projector and the bucket index unchanged; a query for a
\* signature never seen creates no bucket, so the set of bucket keys is the
\* same after it.
C20_QueryReadOnly ==
    [][(pc' = "returned" /\ ret'.op = "query") =>
          /\ UNCHANGED <<size, capacity, entries, mem, lsh_ctx, cparams, index>>
          /\ DOMAIN index' = DOMAIN index
          /\ ret'.status = "out_of_range" => ret'.key \notin DOMAIN index']_vars

\* C20 witness: a query on a store that holds entries has missed every bucket.
C20_Witness ==
    /\ ReturnedFrom("query") /\ ret.status = "out_of_range"
    /\ size >= 1 /\ DOMAIN index # {}
    /\ ret.key \notin DOMAIN index
====
